---- MODULE Spec2Model ----
(***************************************************************************)
(* ZMAIL-BOT: the WhatsApp webhook handler (Main.py), the mediator         *)
(* (Agentic_System.py) and the SQLite store (db.py) as a state machine.    *)
(* One request slot per worker; a request advances one external call       *)
(* (store query, model call, download, e-mail send, WhatsApp send) at a    *)
(* time.  Answers of the language model and failures of the collaborators  *)
(* are nondeterministic choices.                                           *)
(***************************************************************************)
EXTENDS Integers, Sequences, FiniteSets, TLC

\* ------------------------------------------------------------------ bounds
MaxTurns == 3      \* inbound webhook calls per behaviour
MaxClock == 1      \* seconds the wall clock may advance
MaxMedia == 1      \* media entries of one inbound payload
NWorkers == 2      \* request slots (Spec uses slot 1 only)
MaxHistory == 2    \* message rows of a stored chat (SpecClassify)
MaxCalls == 2      \* calls of analyze_conversation on one input (SpecMediator)
MaxEntries == 3    \* media entries of a payload (SpecFilter)
MaxText == 10001   \* characters of an extracted resume text (SpecChunks)
MaxAttach == 2     \* attachments of one e-mail (SpecEmailTool)

Procs  == 1..NWorkers
Serial == {1}

\* inp, out: the argument and the result of a function applied on its own
VARIABLES chats, messages, files, emails, clock, turns, req, inp, out

vars == <<chats, messages, files, emails, clock, turns, req, inp, out>>

\* --------------------------------------------------------------- the store
\* db.py init_db: the three seeded users
Users ==
  << [id |-> 1, phone |-> "+923065187343", is_member |-> 1],
     [id |-> 2, phone |-> "+12345678901",  is_member |-> 1],
     [id |-> 3, phone |-> "+12345678902",  is_member |-> 0] >>

UnknownPhone == "+10000000000"

Phones == {Users[i].phone : i \in 1..Len(Users)} \cup {UnknownPhone}

\* sql_agent.generate_query: SELECT ... FROM users WHERE phone = ? AND is_deleted = 0
SelectUser(phone) ==
  IF \E i \in 1..Len(Users) : Users[i].phone = phone
  THEN << Users[CHOOSE i \in 1..Len(Users) : Users[i].phone = phone] >>
  ELSE << >>

\* the same without the filter on status
ActiveChats_any(user_id) ==
  {c \in 1..Len(chats) : chats[c].user_id = user_id}

\* ids of the chats of a user that have status 'active'
ActiveChats(user_id) ==
  {c \in 1..Len(chats) : chats[c].user_id = user_id /\ chats[c].status = "active"}

\* chat_agent.check_active_chat: ... WHERE user_id = ? AND status = 'active'
\* ORDER BY created_at DESC LIMIT 1.  created_at has one-second resolution, so
\* among the newest rows of one second the row returned is not determined.
SelectActiveChat(user_id) ==
  {c \in ActiveChats(user_id) :
     \A d \in ActiveChats(user_id) : chats[d].created_at <= chats[c].created_at}

\* a history query that filters on the owner of the chat
SelectMessages_user(chat_id) ==
  SelectSeq(messages, LAMBDA m : m.user_id = chats[chat_id].user_id)

\* chat_agent.get_chat_messages: user_message, bot_reply WHERE chat_id = ? ORDER BY created_at ASC
SelectMessages(chat_id) ==
  SelectSeq(messages, LAMBDA m : m.chat_id = chat_id)

\* ------------------------------------------------------------ text helpers
\* Texts are sequences of tokens; " " is white space and "," the comma.
RECURSIVE LStrip(_)
LStrip(s) == IF s # << >> /\ Head(s) = " " THEN LStrip(Tail(s)) ELSE s

RECURSIVE RStrip(_)
RStrip(s) ==
  IF s # << >> /\ s[Len(s)] = " " THEN RStrip(SubSeq(s, 1, Len(s) - 1)) ELSE s

\* str.strip()
Strip(s) == RStrip(LStrip(s))

\* str.split(","): always at least one part
RECURSIVE Split(_)
Split(s) ==
  IF \E i \in 1..Len(s) : s[i] = ","
  THEN LET k == CHOOSE i \in 1..Len(s) :
                  s[i] = "," /\ \A j \in 1..(i - 1) : s[j] # ","
       IN << SubSeq(s, 1, k - 1) >> \o Split(SubSeq(s, k + 1, Len(s)))
  ELSE << s >>

\* str.startswith("TRUE")
StartsWithTRUE(s) == s # << >> /\ s[1] = "TRUE"

\* from_number.replace("whatsapp:", "")
clean_number(from_number) == SelectSeq(from_number, LAMBDA t : t # "whatsapp:")

Has(seq, x) == \E i \in 1..Len(seq) : seq[i] = x

\* ------------------------------------------------------------------ inputs
Bodies == {"Hi"}

NoMedia == [ctype |-> "", url |-> ""]

PdfEntry == [ctype |-> "application/pdf", url |-> "u1"]

\* MediaContentType{i} / MediaUrl{i} of the form; "" is an absent field
MediaEntries ==
  { PdfEntry,
    [ctype |-> "Application/PDF", url |-> "u2"],
    [ctype |-> "image/png",       url |-> "u3"],
    NoMedia }

RECURSIVE SeqsOfLen(_, _)
SeqsOfLen(S, n) ==
  IF n = 0 THEN { << >> }
  ELSE {Append(q, x) : q \in SeqsOfLen(S, n - 1), x \in S}

\* NumMedia is a numeric string or not; int() raises on the latter
NumMedias ==
  {[numeric |-> TRUE, value |-> n] : n \in 0..MaxMedia}
    \cup {[numeric |-> FALSE, value |-> 0]}

\* the webhook payloads with these senders, media entries and bodies
FormsWith(phones, entries, bodies) ==
  [ From     : {<<"whatsapp:", ph>> : ph \in phones},
    Body     : bodies,
    WaId     : {"", "wa"},
    NumMedia : NumMedias,
    media    : SeqsOfLen(entries, MaxMedia) ]

FormsFor(phones, entries) == FormsWith(phones, entries, Bodies)

Forms == FormsFor(Phones, MediaEntries)

\* the payloads of one member, with a pdf or nothing attached
SameSenderForms == FormsFor({Users[1].phone}, {PdfEntry, NoMedia})

\* a comparison that keeps the case
Lower_identity(ctype) == ctype

\* str.lower() on the content types that occur
Lower(ctype) == IF ctype = "Application/PDF" THEN "application/pdf" ELSE ctype

\* Main.py 205-216: the urls of the entries i < num_media that have both
\* fields and whose lower-cased content type is application/pdf, in order
RECURSIVE PdfUrlsFrom(_, _, _)
PdfUrlsFrom(i, num_media, media) ==
  IF i >= num_media THEN << >>
  ELSE LET e == IF i + 1 <= Len(media) THEN media[i + 1] ELSE NoMedia
       IN (IF e.ctype # "" /\ e.url # "" /\ Lower(e.ctype) = "application/pdf"
           THEN << e.url >> ELSE << >>)
          \o PdfUrlsFrom(i + 1, num_media, media)

PdfUrls(num_media, media) == PdfUrlsFrom(0, num_media, media)

\* ----------------------------------------------------------------- replies
Text(kind) == [kind |-> kind, arg |-> << >>]

NonMemberText     == Text("not subscribed")                 \* Main.py 234
IntroText         == Text("intro")                          \* intro_agent answer
ConfirmationText(recipient_email) ==                        \* Main.py 336
  [kind |-> "email sent successfully to", arg |-> recipient_email]
SendErrorText     == Text("error sending the email")        \* Main.py 350
DownloadErrorText == Text("error downloading your attachment") \* Main.py 362
ReminderText      == Text("please attach your resume")      \* Main.py 376
MissingInfoText   == Text("need more information")          \* Main.py 389
UnknownText       == Text("trouble understanding")          \* Main.py 407
GenericErrorText  == Text("error processing your request")  \* Main.py 426
NoIdText          == Text("couldn't identify your phone number") \* Main.py 433
NoText            == Text("")

EmptyAck == "<Response></Response>"

\* ---------------------------------------------------------------- mediator
\* Raw answers of the language model (response.content), before strip()
RawAnswers ==
  { <<"TRUE", ",", " ", "recruiter@acme.com", ",", " ", "Application", ",", " ", "u1">>,
    <<" ", "TRUE", ",", "recruiter@acme.com", ",", "Application", " ">>,
    <<"TRUE", ",", "recruiter@acme.com">>,
    <<"TRUE">>,
    <<"FALSE_1">>,
    <<"FALSE_2", " ">>,
    <<"FALSE_1", " ", "because", " ", "no", " ", "attachment">>,
    << >> }

\* the same without the guard of lines 547-549
analyze_conversation_unguarded(raw, media_urls) == Strip(raw)

\* Agentic_System.py 543-551
analyze_conversation(raw, media_urls) ==
  LET result == Strip(raw)
  IN IF StartsWithTRUE(result) /\ media_urls = << >>
     THEN <<"FALSE_1">>
     ELSE result

\* ----------------------------------------------------------- request state
\* /tmp/resume_<%Y%m%d_%H%M%S>.pdf: one name per second of the wall clock
TempFile(timestamp) == <<"/tmp/resume_", timestamp, ".pdf">>

Idle ==
  [ pc                |-> "idle",
    from_number       |-> << >>,
    body              |-> "",
    wa_id             |-> "",
    media_urls        |-> << >>,
    user_id           |-> 0,
    chat_id           |-> 0,
    chat_history      |-> << >>,
    raw               |-> << >>,
    mediator_response |-> << >>,
    recipient_email   |-> << >>,
    subject           |-> << >>,
    temp_file         |-> << >>,
    dl                |-> "none",     \* what download_file did
    email_body        |-> "",
    email_sent        |-> FALSE,
    reply             |-> NoText,     \* the reply the turn is about to save and send
    stages            |-> << >>,      \* collaborators called in this turn, in order
    persisted         |-> << >>,      \* bot_reply of the rows appended in this turn
    replies           |-> << >>,      \* WhatsApp sends of this turn: text and outcome
    exc               |-> "none",     \* the exception caught in this turn, if any
    ack               |-> "" ]

Init ==
  /\ chats = << >>
  /\ messages = << >>
  /\ files = {}
  /\ emails = << >>
  /\ clock = 0
  /\ turns = 0
  /\ req = [p \in Procs |-> Idle]
  /\ inp = << >>
  /\ out = << >>

\* a step of the handler writes its request slot; inp and out are not its state
Upd(p, r) == req' = [req EXCEPT ![p] = r] /\ UNCHANGED <<inp, out>>

\* datetime.now() / CURRENT_TIMESTAMP: the second read is the one read last
\* or a later one; the clock is observed only where the code reads it
Now == {clock} \cup (IF clock < MaxClock THEN {clock + 1} ELSE {})

\* an error handler that records the error reply as the turn's row
Raise_persist(r, cause) ==
  [r EXCEPT !.pc = "save", !.reply = GenericErrorText, !.exc = cause]

\* an exception inside the inner try: control goes to Main.py 422
Raise(r, cause) == [r EXCEPT !.pc = "err_reply", !.exc = cause]

\* the error handler run as a finally clause
Acknowledge_finally(r) == [r EXCEPT !.pc = "err_reply"]

\* Main.py 437-440: the handler returns the empty TwiML response
Acknowledge(r) == [r EXCEPT !.pc = "done", !.ack = EmptyAck]

\* an exception that leaves the handler: the framework answers, not the handler
OuterExcept_propagates(r) == [r EXCEPT !.pc = "done", !.ack = "500"]

\* Main.py 442-447: the outer except returns the same empty response
OuterExcept(r) == [r EXCEPT !.pc = "done", !.ack = EmptyAck]

Stage(r, name) == [r EXCEPT !.stages = Append(@, name)]

\* ------------------------------------------------------------- the handler
\* a handler that never tests WaId
Identified_always(wa_id) == TRUE

\* Main.py 220: if wa_id
Identified(wa_id) == wa_id # ""

\* Main.py 193-220: read the form, filter the media, test WaId
ReceiveFrom(p, forms) ==
  /\ req[p].pc = "idle"
  /\ turns < MaxTurns
  /\ turns' = turns + 1
  /\ \E form \in forms :
       LET r == [Idle EXCEPT !.from_number = form.From,
                             !.body = form.Body,
                             !.wa_id = form.WaId]
       IN IF ~form.NumMedia.numeric
          THEN \* int() raises ValueError: outer except, Main.py 442-447
               Upd(p, OuterExcept([r EXCEPT !.exc = "payload"]))
          ELSE Upd(p, [r EXCEPT
                 !.media_urls = PdfUrls(form.NumMedia.value, form.media),
                 !.pc = IF Identified(form.WaId) THEN "user_lookup"
                                              ELSE "noid_reply"])
  /\ UNCHANGED <<chats, messages, files, emails, clock>>

Receive(p) == ReceiveFrom(p, Forms)

\* the membership test without is_member
Rejected_unknown_only(user_result) == user_result = << >>

\* Main.py 230: not user_result or not user_result[0].get("is_member", 0)
Rejected(user_result) ==
  user_result = << >> \/ user_result[1].is_member = 0

\* Main.py 222-244: look the sender up; reject unknown senders and non-members
UserLookup(p) ==
  LET r == req[p] IN
  /\ r.pc = "user_lookup"
  /\ \/ Upd(p, Raise(r, "store"))
     \/ LET user_result == SelectUser(Head(clean_number(r.from_number)))
        IN IF Rejected(user_result)
           THEN Upd(p, [r EXCEPT !.reply = NonMemberText, !.pc = "reply"])
           ELSE Upd(p, [r EXCEPT !.user_id = user_result[1].id,
                                 !.pc = "active_lookup"])
  /\ UNCHANGED <<chats, messages, files, emails, clock, turns>>

\* a lookup that never finds a chat
NeedsNewChat_always(active_chat_result) == TRUE

\* Main.py 254: if not active_chat_result
NeedsNewChat(active_chat_result) == active_chat_result = {}

\* Main.py 246-254, 285: find the user's active chat
ActiveLookup(p) ==
  LET r == req[p] IN
  /\ r.pc = "active_lookup"
  /\ \/ Upd(p, Raise(r, "store"))
     \/ LET active_chat_result == SelectActiveChat(r.user_id)
        IN IF NeedsNewChat(active_chat_result)
           THEN Upd(p, [r EXCEPT !.pc = "create_chat"])
           ELSE \E c \in active_chat_result :
                  Upd(p, [r EXCEPT !.chat_id = c, !.pc = "history"])
  /\ UNCHANGED <<chats, messages, files, emails, clock, turns>>

\* Main.py 255-261: insert the chat row; its id is the new rowid
CreateChat(p) ==
  LET r == req[p] IN
  /\ r.pc = "create_chat"
  /\ \/ /\ Upd(p, Raise(r, "store"))
        /\ UNCHANGED chats
        /\ UNCHANGED clock
     \/ \E now \in Now :
          /\ clock' = now
          /\ chats' = Append(chats, [user_id |-> r.user_id, status |-> "active",
                                     created_at |-> now])
          /\ Upd(p, [r EXCEPT !.chat_id = Len(chats) + 1, !.pc = "intro"])
  /\ UNCHANGED <<messages, files, emails, turns>>

\* a creating turn that goes on to the mediation of its message
IntroDone_continue(r) ==
  [Stage(r, "intro") EXCEPT !.reply = IntroText, !.pc = "history"]

\* Main.py 264-276: the intro is the reply of the turn; the mediation is in
\* the else branch (284) and is not reached
IntroDone(r) ==
  [Stage(r, "intro") EXCEPT !.reply = IntroText, !.pc = "save"]

\* Main.py 264: the introductory message of the language model
Intro(p) ==
  LET r == req[p] IN
  /\ r.pc = "intro"
  /\ \/ Upd(p, Raise(r, "model"))
     \/ Upd(p, IntroDone(r))
  /\ UNCHANGED <<chats, messages, files, emails, clock, turns>>

\* Main.py 285-290: read the history of the active chat
History(p) ==
  LET r == req[p] IN
  /\ r.pc = "history"
  /\ \/ Upd(p, Raise(r, "store"))
     \/ Upd(p, [r EXCEPT !.chat_history = SelectMessages(r.chat_id),
                         !.pc = "mediate"])
  /\ UNCHANGED <<chats, messages, files, emails, clock, turns>>

\* a comparison of the first word only
NotReadyReply_prefix(resp) ==
  IF resp # << >> /\ resp[1] = "FALSE_1" THEN ReminderText
  ELSE IF resp # << >> /\ resp[1] = "FALSE_2" THEN MissingInfoText
  ELSE UnknownText

\* Main.py 374-421: the reply for an answer that does not start with TRUE
NotReadyReply(resp) ==
  IF resp = <<"FALSE_1">> THEN ReminderText
  ELSE IF resp = <<"FALSE_2">> THEN MissingInfoText
  ELSE UnknownText

\* missing fields read as empty strings
Fields_padded(resp) == Split(resp) \o << << >>, << >> >>

\* Main.py 305: parts = mediator_response.split(",")
Fields(resp) == Split(resp)

\* Main.py 304-310 and 374-421: branch on the mediator's answer
Route(r, timestamp) ==
  LET resp == r.mediator_response IN
  IF StartsWithTRUE(resp)
  THEN LET parts == Fields(resp) IN
       IF Len(parts) < 3
       THEN Raise(r, "parse")          \* IndexError on parts[1] or parts[2]
       ELSE [r EXCEPT !.recipient_email = Strip(parts[2]),
                      !.subject = Strip(parts[3]),
                      !.temp_file = TempFile(timestamp),
                      !.pc = "download"]
  ELSE [r EXCEPT !.reply = NotReadyReply(resp), !.pc = "save"]

\* a mediator that takes the url it reports out of the list it was given
Classified_consuming(r, raw) ==
  [Stage(r, "mediate") EXCEPT
     !.raw = raw,
     !.mediator_response = analyze_conversation(raw, r.media_urls),
     !.media_urls = IF @ = << >> THEN @ ELSE Tail(@)]

\* Main.py 299-301 with Agentic_System.py 519-551: the call reads its
\* arguments into the prompt and returns a string; the handler keeps it
Classified(r, raw) ==
  [Stage(r, "mediate") EXCEPT
     !.raw = raw,
     !.mediator_response = analyze_conversation(raw, r.media_urls)]

\* Main.py 299-310: ask the mediator, then branch
Mediate(p) ==
  LET r == req[p] IN
  /\ r.pc = "mediate"
  /\ \/ /\ Upd(p, Raise(Stage(r, "mediate"), "model"))
        /\ UNCHANGED clock
     \/ \E raw \in RawAnswers :
          LET q == Classified(r, raw)
          IN IF StartsWithTRUE(q.mediator_response)
                  /\ Len(Split(q.mediator_response)) >= 3
             THEN \E now \in Now : clock' = now /\ Upd(p, Route(q, now))
             ELSE UNCHANGED clock /\ Upd(p, Route(q, clock))
  /\ UNCHANGED <<chats, messages, files, emails, turns>>

\* a pipeline that goes on whatever download_file returned
Downloaded_any(outcome) == TRUE

\* Main.py 78-95: download_file returns True only after the file is written
Downloaded(outcome) == outcome = "ok"

\* one error text for both stages
FailureReply_same(stage) == SendErrorText

\* Main.py 350 and 362: the error reply names the stage that failed
FailureReply(stage) ==
  IF stage = "download" THEN DownloadErrorText ELSE SendErrorText

\* a handler that asks for the file again after a failure
DownloadFailed_retry(r, outcome) ==
  [Stage(r, "download") EXCEPT !.dl = outcome, !.pc = "download"]

\* Main.py 93-95 and 361-372: download_file returns False after its one
\* requests.get; the handler goes to the error reply of the download stage
DownloadFailed(r, outcome) ==
  [Stage(r, "download") EXCEPT !.dl = outcome,
                               !.reply = FailureReply("download"),
                               !.pc = "save"]

\* Main.py 314 with download_file (78-95): fetch the first pdf to the temp file.
\* "failed": the request fails, nothing is written; "partial": open() has
\* created the file and the write fails.
Download(p) ==
  LET r == req[p] IN
  /\ r.pc = "download"
  /\ IF r.media_urls = << >>
     THEN /\ Upd(p, [r EXCEPT !.reply = FailureReply("download"), !.pc = "save"])
          /\ UNCHANGED files
     ELSE \E outcome \in {"ok", "failed", "partial"} :
            /\ files' = IF outcome = "failed" THEN files
                        ELSE files \cup {r.temp_file}
            /\ IF Downloaded(outcome)
               THEN Upd(p, [Stage(r, "download") EXCEPT
                              !.dl = outcome, !.pc = "compose"])
               ELSE Upd(p, DownloadFailed(r, outcome))
  /\ UNCHANGED <<chats, messages, emails, clock, turns>>

\* Main.py 316 with generate_email_body (131-173): never raises; the body is
\* the model's text or the default template (always so when the file is gone)
Compose(p) ==
  LET r == req[p] IN
  /\ r.pc = "compose"
  /\ \E email_body \in (IF r.temp_file \in files
                        THEN {"generated", "default"} ELSE {"default"}) :
       Upd(p, [Stage(r, "compose") EXCEPT !.email_body = email_body,
                                          !.pc = "send"])
  /\ UNCHANGED <<chats, messages, files, emails, clock, turns>>

\* Main.py 330: if email_sent == False
EndsChat(email_sent) == email_sent = FALSE

\* Main.py 319-360 with send_email (97-129): send, unlink the temp file, branch.
\* The mail goes out only if the attachment can be read.
Send(p) ==
  LET r == req[p] IN
  /\ r.pc = "send"
  /\ \E email_sent \in (IF r.temp_file \in files THEN BOOLEAN ELSE {FALSE}) :
       /\ emails' = IF email_sent
                    THEN Append(emails, [to |-> r.recipient_email,
                                         subject |-> r.subject,
                                         attachment |-> r.temp_file,
                                         chat_id |-> r.chat_id])
                    ELSE emails
       /\ LET q == [Stage(Stage(r, "send"), "unlink") EXCEPT
                      !.email_sent = email_sent]
          IN IF EndsChat(email_sent)
             THEN Upd(p, [q EXCEPT !.reply = ConfirmationText(r.recipient_email),
                                   !.pc = "end_chat"])
             ELSE Upd(p, [q EXCEPT !.reply = FailureReply("send"),
                                   !.pc = "save"])
  /\ files' = files \ {r.temp_file}
  /\ UNCHANGED <<chats, messages, clock, turns>>

\* Main.py 332-333 with chat_agent.end_chat: UPDATE chats SET status = 'ended'
EndChat(p) ==
  LET r == req[p] IN
  /\ r.pc = "end_chat"
  /\ \/ /\ Upd(p, Raise(r, "store"))
        /\ UNCHANGED chats
     \/ /\ chats' = [chats EXCEPT ![r.chat_id].status = "ended"]
        /\ Upd(p, [Stage(r, "end_chat") EXCEPT !.pc = "save"])
  /\ UNCHANGED <<messages, files, emails, clock, turns>>

\* the two texts in each other's column
MessageRow_swapped(r) ==
  [chat_id |-> r.chat_id, user_id |-> r.user_id,
   user_message |-> r.reply.kind, bot_reply |-> Text(r.body)]

\* a row written before the reply is known
MessageRow_noreply(r) ==
  [chat_id |-> r.chat_id, user_id |-> r.user_id,
   user_message |-> r.body, bot_reply |-> NoText]

\* Agentic_System.py 399-403: params [chat_id, user_id, user_message, bot_reply]
MessageRow(r) ==
  [chat_id |-> r.chat_id, user_id |-> r.user_id,
   user_message |-> r.body, bot_reply |-> r.reply]

\* an insert that is not committed before the handler goes on
InsertMessage_deferred(rows, row) == rows

\* a store that keeps one row per chat and overwrites it
InsertMessage_upsert(rows, row) ==
  IF \E i \in 1..Len(rows) : rows[i].chat_id = row.chat_id
  THEN [i \in 1..Len(rows) |->
          IF rows[i].chat_id = row.chat_id THEN row ELSE rows[i]]
  ELSE Append(rows, row)

\* Agentic_System.py 399-402 through db.py 89-106: INSERT INTO messages, one
\* new row with the next rowid
InsertMessage(rows, row) == Append(rows, row)

\* chat_agent.save_message (Agentic_System.py 395-403) and its execute_query
Save(p) ==
  LET r == req[p] IN
  /\ r.pc = "save"
  /\ \/ /\ Upd(p, Raise(r, "store"))
        /\ UNCHANGED messages
     \/ /\ messages' = InsertMessage(messages, MessageRow(r))
        /\ Upd(p, [r EXCEPT !.persisted = Append(@, MessageRow(r).bot_reply),
                            !.pc = "reply"])
  /\ UNCHANGED <<chats, files, emails, clock, turns>>

Sent(r, text, ok) == [r EXCEPT !.replies = Append(@, [text |-> text, ok |-> ok])]

\* twilio_client.messages.create of the turn's reply (Main.py 232, 271, 343,
\* 356, 369, 381, 400, 417), then the acknowledgment
Reply(p) ==
  LET r == req[p] IN
  /\ r.pc = "reply"
  /\ \/ Upd(p, Raise(Sent(r, r.reply, FALSE), "twilio"))
     \/ Upd(p, Acknowledge(Sent(r, r.reply, TRUE)))
  /\ UNCHANGED <<chats, messages, files, emails, clock, turns>>

\* Main.py 422-428: the generic error reply; if this send raises too the
\* outer handler (442-447) returns the acknowledgment
ErrReply(p) ==
  LET r == req[p] IN
  /\ r.pc = "err_reply"
  /\ \/ Upd(p, Acknowledge(Sent(r, GenericErrorText, TRUE)))
     \/ Upd(p, OuterExcept(Sent(r, GenericErrorText, FALSE)))
  /\ UNCHANGED <<chats, messages, files, emails, clock, turns>>

\* Main.py 429-440: no WaId
NoIdReply(p) ==
  LET r == req[p] IN
  /\ r.pc = "noid_reply"
  /\ \/ Upd(p, Acknowledge(Sent(r, NoIdText, TRUE)))
     \/ Upd(p, OuterExcept(Sent(r, NoIdText, FALSE)))
  /\ UNCHANGED <<chats, messages, files, emails, clock, turns>>

\* the Response is returned; the slot is free for the next request
Return(p) ==
  /\ req[p].pc = "done"
  /\ Upd(p, Idle)
  /\ UNCHANGED <<chats, messages, files, emails, clock, turns>>

Steps(p) ==
  \/ UserLookup(p)
  \/ ActiveLookup(p)
  \/ CreateChat(p)
  \/ Intro(p)
  \/ History(p)
  \/ Mediate(p)
  \/ Download(p)
  \/ Compose(p)
  \/ Send(p)
  \/ EndChat(p)
  \/ Save(p)
  \/ Reply(p)
  \/ ErrReply(p)
  \/ NoIdReply(p)
  \/ Return(p)

Handler(p) == Receive(p) \/ Steps(p)

\* one uvicorn process: the handler has no await after request.form(), so
\* requests are handled one after another
Next == \E p \in Serial : Handler(p)

Spec == Init /\ [][Next]_vars

\* several worker processes on the same database file: the steps of two
\* requests interleave at every external call
NextConc ==
  \E p \in Procs : ReceiveFrom(p, SameSenderForms) \/ Steps(p)

SpecConc == Init /\ [][NextConc]_vars

\* ------------------------------------------- one turn over a stored chat
\* message bodies of a conversation about one application
EmailBody == "send it to recruiter@acme.com"

SubjectBody == "Subject: Application"

BothBody == "send it to recruiter@acme.com, Subject: Application"

ClassifyBodies == Bodies \cup {EmailBody, SubjectBody, BothBody}

\* a row of the messages table of chat 1 of user 1
HistoryRow(user_message, bot_reply) ==
  [chat_id |-> 1, user_id |-> 1,
   user_message |-> user_message, bot_reply |-> bot_reply]

\* the histories an active chat can have: the first row holds the intro
\* (Main.py 264-265), every later row a reply that left the chat active
\* (Main.py 362-363, 376)
StoredHistories ==
  UNION { { h \in SeqsOfLen({HistoryRow(b, t) :
                               b \in ClassifyBodies,
                               t \in {IntroText, ReminderText, DownloadErrorText}},
                            k) :
              \A i \in 1..k : (h[i].bot_reply = IntroText) <=> (i = 1) } :
          k \in 1..MaxHistory }

\* the store with no chat, or with one active chat of user 1 and its history;
\* one more webhook call is handled
InitClassify ==
  /\ \/ chats = << >> /\ messages = << >>
     \/ /\ chats = << [user_id |-> 1, status |-> "active", created_at |-> 0] >>
        /\ messages \in StoredHistories
  /\ files = {}
  /\ emails = << >>
  /\ clock = 0
  /\ turns = MaxTurns - 1
  /\ req = [p \in Procs |-> Idle]
  /\ inp = << >>
  /\ out = << >>

ClassifyForms ==
  FormsWith({Users[1].phone}, {PdfEntry, NoMedia}, ClassifyBodies)

NextClassify == \E p \in Serial : ReceiveFrom(p, ClassifyForms) \/ Steps(p)

SpecClassify == InitClassify /\ [][NextClassify]_vars

\* ------------------------------- one turn after an earlier chat has ended
\* chat 1 of user 1 has ended after a turn that named the recipient and the
\* subject; chat 2 belongs to user 2
EndedRows ==
  << [chat_id |-> 1, user_id |-> 1, user_message |-> BothBody,
      bot_reply |-> IntroText],
     [chat_id |-> 2, user_id |-> 2, user_message |-> EmailBody,
      bot_reply |-> IntroText],
     [chat_id |-> 1, user_id |-> 1, user_message |-> "Hi",
      bot_reply |-> ConfirmationText(<<"recruiter@acme.com">>)] >>

\* a later row of user 2
OtherRow ==
  [chat_id |-> 2, user_id |-> 2, user_message |-> SubjectBody,
   bot_reply |-> ReminderText]

\* user 1 has no active chat, or has the new active chat 3 with its history
InitEnded ==
  /\ \/ /\ chats = << [user_id |-> 1, status |-> "ended",  created_at |-> 0],
                      [user_id |-> 2, status |-> "active", created_at |-> 0] >>
        /\ messages = EndedRows \o << OtherRow >>
     \/ /\ chats = << [user_id |-> 1, status |-> "ended",  created_at |-> 0],
                      [user_id |-> 2, status |-> "active", created_at |-> 0],
                      [user_id |-> 1, status |-> "active", created_at |-> 0] >>
        /\ \E h \in StoredHistories :
             messages = EndedRows
                          \o [i \in 1..Len(h) |-> [h[i] EXCEPT !.chat_id = 3]]
                          \o << OtherRow >>
  /\ files = {}
  /\ emails = << >>
  /\ clock = 0
  /\ turns = MaxTurns - 1
  /\ req = [p \in Procs |-> Idle]
  /\ inp = << >>
  /\ out = << >>

SpecEnded == InitEnded /\ [][NextClassify]_vars

\* ------------------------------------- analyze_conversation on its own
\* the arguments of analyze_conversation: a history (possibly empty), a
\* message (possibly empty) and the pdf urls of the turn
MediatorInputs ==
  [ chat_history : {<< >>} \cup StoredHistories,
    user_message : ClassifyBodies \cup {""},
    media_urls   : {<< >>, <<"u1">>} ]

\* the store is not involved
EmptyStore ==
  /\ chats = << >>
  /\ messages = << >>
  /\ files = {}
  /\ emails = << >>
  /\ clock = 0
  /\ turns = 0
  /\ req = [p \in Procs |-> Idle]

InitMediator ==
  /\ EmptyStore
  /\ inp \in MediatorInputs
  /\ out = << >>

\* Agentic_System.py 515-551: one call.  agent.run answers or raises; nothing
\* in the function catches, and nothing fixes the answer for given arguments.
Classify ==
  /\ Len(out) < MaxCalls
  /\ \/ \E raw \in RawAnswers :
          out' = Append(out, [raised |-> FALSE,
                              decision |-> analyze_conversation(raw, inp.media_urls)])
     \/ out' = Append(out, [raised |-> TRUE, decision |-> << >>])
  /\ UNCHANGED <<chats, messages, files, emails, clock, turns, req, inp>>

NextMediator == Classify

SpecMediator == InitMediator /\ [][NextMediator]_vars

\* --------------------------------------------- the media filter on its own
\* NumMedia and the MediaContentType{i} / MediaUrl{i} fields of a payload; an
\* entry may lack its url
FilterInputs ==
  [ NumMedia : 0..MaxEntries,
    media    : SeqsOfLen(MediaEntries
                           \cup {[ctype |-> "application/pdf", url |-> ""]},
                         MaxEntries) ]

InitFilter ==
  /\ EmptyStore
  /\ inp \in FilterInputs
  /\ out = << >>

\* Main.py 201-216, then the mediator on the filtered list for each answer
\* the model can give
Filter ==
  /\ out = << >>
  /\ LET media_urls == PdfUrls(inp.NumMedia, inp.media)
     IN out' = << [media_urls |-> media_urls,
                   decisions  |-> {analyze_conversation(raw, media_urls) :
                                     raw \in RawAnswers}] >>
  /\ UNCHANGED <<chats, messages, files, emails, clock, turns, req, inp>>

NextFilter == Filter

SpecFilter == InitFilter /\ [][NextFilter]_vars

\* ------------------------------------------------ process_pdf on its own
chunk_size == 2000     \* Agentic_System.py 73

max_chunks == 5        \* Agentic_System.py 77

text_cap == 10000      \* Agentic_System.py 115

\* all_text[i:i+chunk_size] of a text of n characters, as the positions
\* [from, to) it covers
Slice(n, i) ==
  [from |-> i, to |-> IF i + chunk_size < n THEN i + chunk_size ELSE n]

\* Agentic_System.py 74: one slice for each i of range(0, n, chunk_size)
RECURSIVE ChunksFrom(_, _)
ChunksFrom(i, n) ==
  IF i >= n THEN << >> ELSE << Slice(n, i) >> \o ChunksFrom(i + chunk_size, n)

\* a list that is not cut
Limit_none(chunks) == chunks

\* Agentic_System.py 77-80: chunks[:max_chunks]
Limit(chunks) ==
  IF Len(chunks) > max_chunks THEN SubSeq(chunks, 1, max_chunks) ELSE chunks

InitChunks ==
  /\ EmptyStore
  /\ inp \in 0..MaxText
  /\ out = << >>

\* Agentic_System.py 60-123 on a text of inp characters: the file cannot be
\* read (status error), or the chunks are cut and added one by one under the
\* ids 0, 1, ...; an add that raises is skipped (lines 92-103)
process_pdf ==
  /\ out = << >>
  /\ \/ out' = << [status |-> "error", chunks |-> << >>, failed |-> {},
                   stored |-> {}, text |-> 0] >>
     \/ LET chunks == Limit(ChunksFrom(0, inp))
        IN \E failed \in SUBSET (0..(Len(chunks) - 1)) :
             LET stored == {[id |-> k - 1, document |-> chunks[k]] :
                              k \in {j \in 1..Len(chunks) : j - 1 \notin failed}}
                 added_chunks == Cardinality(stored)
             IN out' = << [status |-> IF added_chunks > 0 THEN "success"
                                                           ELSE "partial_success",
                           chunks |-> chunks,
                           failed |-> failed,
                           stored |-> stored,
                           text   |-> IF added_chunks > 0 THEN 0
                                      ELSE IF inp < text_cap THEN inp
                                      ELSE text_cap] >>
  /\ UNCHANGED <<chats, messages, files, emails, clock, turns, req, inp>>

NextChunks == process_pdf

SpecChunks == InitChunks /\ [][NextChunks]_vars

\* ------------------------------- email_user_with_attachments on its own
SuccessText == "email sent successfully"       \* email_agent.py 83

\* the toolkit's four settings, each present or missing, and the attachment
\* paths, each a file that can be read or one that cannot
EmailToolInputs ==
  [ receiver_email : {"", "recruiter@acme.com"},
    sender_name    : {"", "Zain Raza"},
    sender_email   : {"", "zainxaidi2003@gmail.com"},
    sender_passkey : {"", "passkey"},
    attachments    : UNION {SeqsOfLen({"readable", "unreadable"}, k) :
                              k \in 0..MaxAttach} ]

\* email_agent.py 55-73: attach the files in order; the first one that cannot
\* be opened or read ends the function
RECURSIVE AttachFrom(_, _, _)
AttachFrom(attachments, i, attached) ==
  IF i > Len(attachments) THEN [ok |-> TRUE, attached |-> attached]
  ELSE IF attachments[i] = "unreadable"
       THEN [ok |-> FALSE, attached |-> attached]
       ELSE AttachFrom(attachments, i + 1, Append(attached, i))

\* a loop that goes on to the next file after a failure
Attach_skip(attachments) ==
  [ok |-> TRUE,
   attached |-> SelectSeq([i \in 1..Len(attachments) |-> i],
                          LAMBDA i : attachments[i] = "readable")]

\* email_agent.py 54-73
Attach(attachments) == AttachFrom(attachments, 1, << >>)

ToolResult(result, smtp, attached) ==
  [result |-> result, smtp |-> smtp, attached |-> attached]

InitEmailTool ==
  /\ EmptyStore
  /\ inp \in EmailToolInputs
  /\ out = << >>

\* email_agent.py 39-83: the four settings, the attachments, then one SMTP
\* session that sends the message or raises
email_user_with_attachments ==
  /\ out = << >>
  /\ IF inp.receiver_email = ""
     THEN out' = << ToolResult("error: No receiver email provided", "none", << >>) >>
     ELSE IF inp.sender_name = ""
     THEN out' = << ToolResult("error: No sender name provided", "none", << >>) >>
     ELSE IF inp.sender_email = ""
     THEN out' = << ToolResult("error: No sender email provided", "none", << >>) >>
     ELSE IF inp.sender_passkey = ""
     THEN out' = << ToolResult("error: No sender passkey provided", "none", << >>) >>
     ELSE LET a == Attach(inp.attachments)
          IN IF ~a.ok
             THEN out' = << ToolResult("error: Failed to attach file", "none",
                                       a.attached) >>
             ELSE \/ out' = << ToolResult(SuccessText, "sent", a.attached) >>
                  \/ out' = << ToolResult("error: smtp", "failed", a.attached) >>
                  \* the session raises on leaving, after send_message
                  \/ out' = << ToolResult("error: smtp", "sent", a.attached) >>
  /\ UNCHANGED <<chats, messages, files, emails, clock, turns, req, inp>>

NextEmailTool == email_user_with_attachments

SpecEmailTool == InitEmailTool /\ [][NextEmailTool]_vars

\* --------------------------------------- generate_email_body on its own
\* Main.py 175-184; Agentic_System.py 229-236 is the same text
get_default_email_template == "default"

\* one call: the path argument, what the PDF holds, whether the vector store
\* takes the chunks, what the query finds, what the summary model answers
\* (its own except clause answers the template), and the call, if any, out
\* of which an exception escapes
ComposeInputs ==
  [ attachment_path : {"", "/tmp/resume.pdf"},
    pdf             : {"unreadable", "empty", "text"},
    store           : {"ok", "fails"},
    documents       : {"some", "none"},
    content         : {"generated", "", "raise"},
    raises          : {"none", "process_pdf", "query_collection",
                       "generate_email_content"} ]

\* Agentic_System.py 60-123: error when the file cannot be read, success when
\* at least one chunk was stored, else the extracted text itself
processing_result(c) ==
  IF c.pdf = "unreadable" THEN [status |-> "error", text |-> ""]
  ELSE IF c.pdf = "text" /\ c.store = "ok"
       THEN [status |-> "success", text |-> ""]
       ELSE [status |-> "partial_success",
             text |-> IF c.pdf = "text" THEN "resume text" ELSE ""]

\* Agentic_System.py 125-135: documents[0]; empty too when the query raises
query_collection(c) ==
  IF c.documents = "some" THEN <<"chunk">> ELSE << >>

\* Agentic_System.py 169-236: the model's content, or the template on error
generate_email_content(c) ==
  IF c.content = "raise" THEN get_default_email_template ELSE c.content

Returned(body) == [raised |-> FALSE, body |-> body]

\* Main.py 134-169, the body of the try block; "raise" when an exception
\* escapes one of the calls
TryBody(c) ==
  IF c.attachment_path = "" THEN get_default_email_template
  ELSE IF c.raises = "process_pdf" THEN "raise"
  ELSE LET res == processing_result(c) IN
       IF res.status = "success"
       THEN IF c.raises = "query_collection" THEN "raise"
            ELSE IF query_collection(c) # << >>
                 THEN IF c.raises = "generate_email_content" THEN "raise"
                      ELSE generate_email_content(c)
                 ELSE get_default_email_template
       ELSE IF res.status = "partial_success" /\ res.text # ""
       THEN IF c.raises = "generate_email_content" THEN "raise"
            ELSE generate_email_content(c)
       ELSE get_default_email_template

\* the function without its except clause
generate_email_body_unguarded(c) ==
  IF TryBody(c) = "raise" THEN [raised |-> TRUE, body |-> ""]
  ELSE Returned(TryBody(c))

\* Main.py 131-173
generate_email_body(c) ==
  IF TryBody(c) = "raise" THEN Returned(get_default_email_template)
  ELSE Returned(TryBody(c))

InitCompose ==
  /\ EmptyStore
  /\ inp \in ComposeInputs
  /\ out = << >>

ComposeBody ==
  /\ out = << >>
  /\ out' = << generate_email_body(inp) >>
  /\ UNCHANGED <<chats, messages, files, emails, clock, turns, req, inp>>

NextCompose == ComposeBody

SpecCompose == InitCompose /\ [][NextCompose]_vars

\* ================================================================== claims
InFlight(r) == r.pc # "idle"
Finished(r) == r.pc = "done"
Ready(r) == StartsWithTRUE(r.mediator_response)
ChatActive(r) == r.chat_id # 0 /\ chats[r.chat_id].status = "active"
Quiet == \A p \in Procs : req[p].pc \in {"idle", "done"}
ActivePerUser(n) ==
  \A i \in 1..Len(Users) : Cardinality(ActiveChats(Users[i].id)) <= n

\* C1: whatever the model answers, the mediator's result never starts with
\* TRUE in a turn whose media_urls is empty.
C1_NoReadyWithoutMedia ==
  \A p \in Procs :
    req[p].media_urls = << >> => ~StartsWithTRUE(req[p].mediator_response)

\* the model answered TRUE for a turn without media and the result is FALSE_1
C1_Witness ==
  \E p \in Procs :
    /\ req[p].media_urls = << >>
    /\ StartsWithTRUE(Strip(req[p].raw))
    /\ req[p].mediator_response = <<"FALSE_1">>

\* C2: a Ready turn whose download and e-mail send both succeed ends the chat
\* and persists the confirmation reply.
C2_SuccessEndsChat ==
  \A p \in Procs :
    LET r == req[p] IN
    (Finished(r) /\ Ready(r) /\ r.dl = "ok" /\ Has(r.stages, "send")
       /\ r.email_sent /\ r.exc = "none")
      => /\ chats[r.chat_id].status = "ended"
         /\ r.persisted = << ConfirmationText(r.recipient_email) >>

\* C3: a Ready turn whose download succeeds and whose e-mail send fails leaves
\* the chat active, does not run end_chat, and persists the send-error reply.
C3_SendFailureKeepsChat ==
  \A p \in Procs :
    LET r == req[p] IN
    (Finished(r) /\ Ready(r) /\ r.dl = "ok" /\ Has(r.stages, "send")
       /\ ~r.email_sent /\ r.exc = "none")
      => /\ ChatActive(r)
         /\ ~Has(r.stages, "end_chat")
         /\ r.persisted = << SendErrorText >>

\* C4: a Ready turn whose download fails sends no e-mail, leaves the chat
\* active and persists the download-error reply (nothing else; exactly that
\* row unless a store operation of the turn failed).
C4_DownloadFailure ==
  /\ [](\A p \in Serial :
          LET r == req[p] IN
          (Ready(r) /\ r.dl \in {"failed", "partial"})
            => /\ ~Has(r.stages, "send") /\ ~r.email_sent
               /\ ChatActive(r)
               /\ \A i \in 1..Len(r.persisted) :
                    r.persisted[i] = DownloadErrorText
               /\ (Finished(r) /\ r.exc \in {"none", "twilio"})
                    => r.persisted = << DownloadErrorText >>)
  /\ [][(\E p \in Serial :
           \/ Ready(req[p]) /\ req[p].dl \in {"failed", "partial"}
           \/ Ready(req'[p]) /\ req'[p].dl \in {"failed", "partial"})
          => emails' = emails]_vars

\* a finished turn whose download failed and whose row is the download error
C4_Witness ==
  \E p \in Serial :
    LET r == req[p] IN
    /\ Finished(r) /\ Ready(r) /\ r.dl \in {"failed", "partial"}
    /\ r.persisted = << DownloadErrorText >>
    /\ ChatActive(r)
    /\ messages[Len(messages)].bot_reply = DownloadErrorText

\* C5: with requests handled one after another every user has at most one
\* active chat in every state, and a chat row is inserted only by a request
\* whose user has no active chat at that moment.
C5_OneActiveChat ==
  /\ [](ActivePerUser(1))
  /\ [][Len(chats') > Len(chats)
          => \E p \in Serial :
               /\ req[p].pc = "create_chat"
               /\ chats'[Len(chats')].user_id = req[p].user_id
               /\ ActiveChats(req[p].user_id) = {}]_vars

\* a later message of a user who has an active chat found it and created none
C5_Witness ==
  \E p \in Serial :
    LET r == req[p] IN
    /\ Finished(r) /\ Has(r.stages, "mediate")
    /\ ActiveChats(r.user_id) = {r.chat_id}
    /\ Cardinality({c \in 1..Len(chats) : chats[c].user_id = r.user_id}) = 1

\* C6: after two concurrently handled messages of one phone number have both
\* completed, that user has at most one active chat.
C6_OneActiveChatConcurrent == Quiet => ActivePerUser(1)

\* C7: two messages of one chat that are in the middle of their handling at
\* the same time do not both dispatch an e-mail.
C7_NoDoubleSend ==
  \A p, q \in Procs :
    (p # q /\ req[p].chat_id # 0 /\ req[p].chat_id = req[q].chat_id
       /\ InFlight(req[p]) /\ ~Finished(req[p])
       /\ InFlight(req[q]) /\ ~Finished(req[q]))
      => ~(req[p].email_sent /\ req[q].email_sent)

\* C8: when a Ready turn finishes, its temporary resume file does not exist.
C8_TempFileRemoved ==
  \A p \in Serial :
    (Finished(req[p]) /\ req[p].temp_file # << >>)
      => req[p].temp_file \notin files

Before(seq, x, y) ==
  \E i, j \in 1..Len(seq) : i < j /\ seq[i] = x /\ seq[j] = y

\* C9: in a turn that reaches the send step the download has succeeded and
\* download and composition both precede the send; every e-mail is appended by
\* such a turn.
C9_DownloadComposeBeforeSend ==
  /\ [](\A p \in Procs :
          LET r == req[p] IN
          (Has(r.stages, "send") \/ r.email_sent \/ r.pc = "send")
            => /\ r.dl = "ok"
               /\ Before(r.stages, "download", "compose")
               /\ r.pc # "send" => Before(r.stages, "compose", "send"))
  /\ [][Len(emails') > Len(emails)
          => \E p \in Procs :
               /\ req[p].pc = "send" /\ req[p].dl = "ok"
               /\ req[p].stages = <<"mediate", "download", "compose">>
               /\ emails'[Len(emails')].attachment = req[p].temp_file]_vars

\* a turn that downloaded, composed and then sent an e-mail
C9_Witness ==
  \E p \in Serial :
    LET r == req[p] IN
    /\ Finished(r) /\ r.email_sent /\ r.dl = "ok"
    /\ r.stages = <<"mediate", "download", "compose", "send", "unlink">>
    /\ emails # << >> /\ emails[Len(emails)].attachment = r.temp_file

\* the sender is identified and is no member according to the users table
NonMemberTurn(r) ==
  /\ InFlight(r) /\ r.wa_id # "" /\ r.exc # "payload"
  /\ \A i \in 1..Len(Users) :
       <<Users[i].phone>> = clean_number(r.from_number) => Users[i].is_member = 0

\* C10: a message of an unknown sender or a non-member is answered with the
\* fixed rejection text (the first and, unless a call fails, the only reply of
\* the turn), runs neither the mediator nor the pipeline, and changes no
\* chat row, message row, file or e-mail.
C10_NonMemberRejected ==
  /\ [](\A p \in Serial :
          LET r == req[p] IN
          NonMemberTurn(r)
            => /\ r.user_id = 0 /\ r.chat_id = 0
               /\ r.stages = << >> /\ r.persisted = << >>
               /\ (r.replies # << >> /\ r.exc # "store")
                    => r.replies[1].text = NonMemberText
               /\ (Finished(r) /\ r.exc = "none")
                    => r.replies = << [text |-> NonMemberText, ok |-> TRUE] >>)
  /\ [][(\E p \in Serial : NonMemberTurn(req[p]) \/ NonMemberTurn(req'[p]))
          => UNCHANGED <<chats, messages, files, emails>>]_vars

\* a non-member's message was answered with the rejection text while chats exist
C10_Witness ==
  \E p \in Serial :
    LET r == req[p] IN
    /\ Finished(r) /\ NonMemberTurn(r)
    /\ clean_number(r.from_number) = <<Users[3].phone>>
    /\ r.replies = << [text |-> NonMemberText, ok |-> TRUE] >>
    /\ chats # << >> /\ messages # << >>

\* C11: a member's message that finds no active chat leaves that user with
\* exactly one active chat, the new one, whose only message row holds the
\* inbound body and the introductory reply, and that reply is the one sent.
C11_FirstMessageCreatesChat ==
  \A p \in Serial :
    LET r == req[p] IN
    (Finished(r) /\ Has(r.stages, "intro") /\ r.exc = "none")
      => /\ r.chat_id = Len(chats)
         /\ chats[r.chat_id].user_id = r.user_id
         /\ ActiveChats(r.user_id) = {r.chat_id}
         /\ SelectMessages(r.chat_id) =
              << [chat_id |-> r.chat_id, user_id |-> r.user_id,
                  user_message |-> r.body, bot_reply |-> IntroText] >>
         /\ r.persisted = << IntroText >>
         /\ r.replies = << [text |-> IntroText, ok |-> TRUE] >>

\* a member's first message "Hi" has created chat 1 and its intro row
C11_Witness ==
  \E p \in Serial :
    LET r == req[p] IN
    /\ Finished(r) /\ Has(r.stages, "intro") /\ r.exc = "none"
    /\ r.body = "Hi" /\ r.user_id = 1
    /\ chats = << [user_id |-> 1, status |-> "active", created_at |-> 0] >>
    /\ Len(messages) = 1 /\ messages[1].user_message = "Hi"
    /\ messages[1].bot_reply = IntroText

Delivered(r) == Cardinality({i \in 1..Len(r.replies) : r.replies[i].ok})

\* C12 as stated: every finished turn of an identified sender has sent
\* exactly one reply.
C12_ExactlyOneReply ==
  \A p \in Serial :
    LET r == req[p] IN
    (Finished(r) /\ r.wa_id # "" /\ r.exc # "payload")
      => Len(r.replies) = 1

\* C12 amended: a turn attempts at most two sends and delivers at most one
\* reply; a second send is the generic error reply after the first one
\* raised; a finished turn of an identified sender with a numeric NumMedia has
\* attempted at least one, and exactly one if no send raised.
C12_AtMostOneReplyDelivered ==
  \A p \in Serial :
    LET r == req[p] IN
    /\ Len(r.replies) <= 2
    /\ Delivered(r) <= 1
    /\ Len(r.replies) = 2
         => ~r.replies[1].ok /\ r.replies[2].text = GenericErrorText
    /\ (Finished(r) /\ r.wa_id # "" /\ r.exc # "payload")
         => /\ Len(r.replies) >= 1
            /\ (\A i \in 1..Len(r.replies) : r.replies[i].ok)
                 => Len(r.replies) = 1

\* the reply send raised and the generic error reply was delivered instead
C12_Witness ==
  \E p \in Serial :
    LET r == req[p] IN
    /\ Finished(r) /\ r.wa_id # "" /\ r.exc = "twilio"
    /\ Len(r.replies) = 2 /\ ~r.replies[1].ok
    /\ r.replies[2] = [text |-> GenericErrorText, ok |-> TRUE]

\* C13 as stated: every finished turn of a member has appended exactly one
\* row, whose bot_reply is the reply sent.
C13_ExactlyOneRow ==
  \A p \in Serial :
    LET r == req[p] IN
    (Finished(r) /\ r.user_id # 0)
      => /\ Len(r.persisted) = 1
         /\ \E i \in 1..Len(r.replies) :
              r.replies[i].ok /\ r.replies[i].text = r.persisted[1]

\* C13 amended: a member's turn appends at most one row; a turn in which
\* nothing raises appends exactly one, whose bot_reply is the reply delivered;
\* a turn in which the store, the language model or the parsing of its answer
\* raises appends none; when the reply send raises the row is already written
\* and its bot_reply was not delivered.
C13_AtMostOneRow ==
  \A p \in Serial :
    LET r == req[p] IN
    r.user_id # 0
      => /\ Len(r.persisted) <= 1
         /\ r.persisted # << >>
              => /\ messages # << >>
                 /\ messages[Len(messages)] =
                      [chat_id |-> r.chat_id, user_id |-> r.user_id,
                       user_message |-> r.body, bot_reply |-> r.persisted[1]]
         /\ (Finished(r) /\ r.exc = "none")
              => /\ Len(r.persisted) = 1
                 /\ r.replies = << [text |-> r.persisted[1], ok |-> TRUE] >>
         /\ r.exc \in {"store", "model", "parse"} => r.persisted = << >>
         /\ r.exc = "twilio"
              => /\ Len(r.persisted) = 1
                 /\ r.replies[1] = [text |-> r.persisted[1], ok |-> FALSE]

\* a store operation of a member's turn raised and the turn appended no row
C13_Witness ==
  \E p \in Serial :
    LET r == req[p] IN
    /\ Finished(r) /\ r.user_id # 0 /\ r.chat_id # 0
    /\ r.exc = "store" /\ r.persisted = << >>
    /\ r.replies = << [text |-> GenericErrorText, ok |-> TRUE] >>

\* the mediator returned an answer in this turn
Mediated(r) == Has(r.stages, "mediate") /\ r.exc # "model"

\* C14: after any answer that does not start with TRUE the chat stays active,
\* nothing is downloaded or sent, and the row and the reply of the turn are
\* the reminder for FALSE_1, the request for information for FALSE_2 and the
\* clarification text for anything else.
C14_NotReadyKeepsChat ==
  \A p \in Serial :
    LET r == req[p]
        expected ==
          IF r.mediator_response = <<"FALSE_1">> THEN ReminderText
          ELSE IF r.mediator_response = <<"FALSE_2">> THEN MissingInfoText
          ELSE UnknownText
    IN (Mediated(r) /\ ~Ready(r))
         => /\ ChatActive(r)
            /\ r.stages = <<"mediate">>
            /\ r.dl = "none" /\ r.temp_file = << >> /\ ~r.email_sent
            /\ \A i \in 1..Len(r.persisted) : r.persisted[i] = expected
            /\ (Finished(r) /\ r.exc \in {"none", "twilio"})
                 => r.persisted = << expected >>
            /\ (Finished(r) /\ r.exc = "none")
                 => r.replies = << [text |-> expected, ok |-> TRUE] >>

\* an answer that is neither TRUE..., FALSE_1 nor FALSE_2 got the clarification
C14_Witness ==
  \E p \in Serial :
    LET r == req[p] IN
    /\ Finished(r) /\ Mediated(r) /\ r.exc = "none"
    /\ r.mediator_response # << >> /\ r.mediator_response[1] = "FALSE_1"
    /\ r.mediator_response # <<"FALSE_1">>
    /\ r.persisted = << UnknownText >>
    /\ ChatActive(r)

\* C15: a chat row whose status is ended stays ended and chat rows are never
\* removed; a turn only continues a chat that is active; a turn that ended its
\* chat leaves the user without an active chat; a lookup that finds only ended
\* chats goes on to create a chat, and the created chat is a new row with a new
\* id that leaves every existing row as it was.
C15_EndedNeverReopened ==
  /\ [](\A p \in Serial :
          LET r == req[p] IN
          /\ r.pc = "history" => chats[r.chat_id].status = "active"
          /\ (Finished(r) /\ Has(r.stages, "end_chat"))
               => \A c \in 1..Len(chats) :
                    chats[c].user_id = r.user_id => chats[c].status = "ended")
  /\ [][/\ Len(chats') >= Len(chats)
        /\ \A c \in 1..Len(chats) :
             /\ chats'[c].user_id = chats[c].user_id
             /\ chats[c].status = "ended" => chats'[c].status = "ended"
        /\ \A p \in Serial :
             LET r == req[p]
                 r2 == req'[p]
             IN /\ (/\ r.pc = "active_lookup" /\ r2.exc = "none"
                    /\ \A c \in 1..Len(chats) :
                         chats[c].user_id = r.user_id
                           => chats[c].status = "ended")
                      => r2.pc = "create_chat"
                /\ (r.pc = "create_chat" /\ r2.exc = "none")
                      => /\ Len(chats') = Len(chats) + 1
                         /\ r2.chat_id = Len(chats')
                         /\ chats'[r2.chat_id].user_id = r.user_id
                         /\ chats'[r2.chat_id].status = "active"
                         /\ \A c \in 1..Len(chats) : chats'[c] = chats[c]
       ]_vars

\* chat 1 of a user was ended and the user's next message created chat 2
C15_Witness ==
  \E p \in Serial :
    LET r == req[p] IN
    /\ Finished(r) /\ Has(r.stages, "intro") /\ r.exc = "none"
    /\ Len(chats) = 2 /\ r.chat_id = 2
    /\ chats[1].user_id = r.user_id /\ chats[1].status = "ended"
    /\ chats[2].user_id = r.user_id /\ chats[2].status = "active"

\* the number of handler steps that can still follow a position
Rank(pc) ==
  CASE pc = "user_lookup"   -> 13
    [] pc = "active_lookup" -> 12
    [] pc = "create_chat"   -> 11
    [] pc = "intro"         -> 10
    [] pc = "history"       -> 10
    [] pc = "mediate"       -> 9
    [] pc = "download"      -> 8
    [] pc = "compose"       -> 7
    [] pc = "send"          -> 6
    [] pc = "end_chat"      -> 5
    [] pc = "save"          -> 4
    [] pc = "reply"         -> 3
    [] pc = "err_reply"     -> 2
    [] pc = "noid_reply"    -> 2
    [] pc = "done"          -> 1
    [] OTHER                -> 0

\* C16: a request that has finished carries the empty TwiML acknowledgment,
\* whatever was raised on the way; a request that has not finished always has
\* a next step, and every step brings it strictly closer to the return, so
\* every request returns after at most 13 steps.
C16_AlwaysAcknowledged ==
  /\ [](\A p \in Serial :
          LET r == req[p] IN
          /\ Finished(r) => r.ack = EmptyAck
          /\ (InFlight(r) /\ ~Finished(r)) => ENABLED Steps(p))
  /\ [][\A p \in Serial :
          (InFlight(req[p]) /\ req'[p] # req[p])
            => Rank(req'[p].pc) < Rank(req[p].pc)]_vars

\* the reply send raised, the error handler's own send raised too, and the
\* request still finished with the empty acknowledgment
C16_Witness ==
  \E p \in Serial :
    LET r == req[p] IN
    /\ Finished(r) /\ r.exc = "twilio" /\ r.ack = EmptyAck
    /\ Len(r.replies) = 2 /\ ~r.replies[1].ok /\ ~r.replies[2].ok

\* C17: a turn in which a store operation raised persists no message row and
\* goes straight to the error handler, whose generic try-again-later text is
\* the only reply of the turn.
C17_StoreFailure ==
  \A p \in Serial :
    LET r == req[p] IN
    r.exc = "store"
      => /\ r.persisted = << >>
         /\ r.pc \in {"err_reply", "done"}
         /\ Len(r.replies) <= 1
         /\ \A i \in 1..Len(r.replies) : r.replies[i].text = GenericErrorText
         /\ Finished(r) => Len(r.replies) = 1

\* the message append raised after end_chat had run: no row, generic reply
C17_Witness ==
  \E p \in Serial :
    LET r == req[p] IN
    /\ Finished(r) /\ r.exc = "store" /\ Has(r.stages, "end_chat")
    /\ r.persisted = << >>
    /\ r.replies = << [text |-> GenericErrorText, ok |-> TRUE] >>

\* C18 as stated: a payload without WaId or with a non-numeric NumMedia gets
\* no reply and the empty acknowledgment.
C18_MalformedIgnored ==
  \A p \in Serial :
    LET r == req[p] IN
    (Finished(r) /\ (r.wa_id = "" \/ r.exc = "payload"))
      => r.replies = << >> /\ r.ack = EmptyAck

\* C18 amended: a payload with a non-numeric NumMedia gets no reply; a payload
\* with a numeric NumMedia and no WaId gets exactly one send, the
\* could-not-identify text; in both cases no user is looked up, no row of any
\* table and no file changes, and the empty acknowledgment is returned.
C18_MalformedPayload ==
  /\ [](\A p \in Serial :
          LET r == req[p] IN
          /\ r.exc = "payload"
               => /\ Finished(r) /\ r.ack = EmptyAck
                  /\ r.replies = << >> /\ r.persisted = << >>
                  /\ r.stages = << >> /\ r.user_id = 0 /\ r.chat_id = 0
          /\ (InFlight(r) /\ r.wa_id = "" /\ r.exc # "payload")
               => /\ r.pc \in {"noid_reply", "done"}
                  /\ r.persisted = << >> /\ r.stages = << >>
                  /\ r.user_id = 0 /\ r.chat_id = 0
                  /\ Finished(r)
                       => /\ r.ack = EmptyAck
                          /\ Len(r.replies) = 1
                          /\ r.replies[1].text = NoIdText)
  /\ [][\A p \in Serial :
          (InFlight(req'[p]) /\ (req'[p].wa_id = "" \/ req'[p].exc = "payload"))
            => UNCHANGED <<chats, messages, files, emails>>]_vars

\* a message without WaId was answered with the could-not-identify text
C18_Witness ==
  \E p \in Serial :
    LET r == req[p] IN
    /\ Finished(r) /\ r.wa_id = "" /\ r.exc = "none"
    /\ r.replies = << [text |-> NoIdText, ok |-> TRUE] >>
    /\ r.ack = EmptyAck /\ chats = << >> /\ messages = << >>

\* an e-mail address / a subject occurs in a text of the conversation
HasEmail(text) == text \in {EmailBody, BothBody, "email sent successfully to"}

HasSubject(text) == text \in {SubjectBody, BothBody}

\* the texts of H and M: both columns of every history row and the body
Texts(chat_history, body) ==
  {chat_history[i].user_message : i \in 1..Len(chat_history)}
    \cup {chat_history[i].bot_reply.kind : i \in 1..Len(chat_history)}
    \cup {body}

InfoPresent(chat_history, body) ==
  /\ \E t \in Texts(chat_history, body) : HasEmail(t)
  /\ \E t \in Texts(chat_history, body) : HasSubject(t)

\* C19: in every turn whose history and message hold no e-mail address or no
\* subject, the mediator's result is FALSE_2, whatever media_urls contains.
C19_MissingInfoClassified ==
  \A p \in Serial :
    LET r == req[p] IN
    (Mediated(r) /\ ~InfoPresent(r.chat_history, r.body))
      => r.mediator_response = <<"FALSE_2">>

\* C20: in every turn whose history and message hold an e-mail address and a
\* subject and whose media_urls is empty, the mediator's result is FALSE_1, the
\* chat stays active and the reminder is the row persisted.
C20_MissingAttachmentClassified ==
  \A p \in Serial :
    LET r == req[p] IN
    (Mediated(r) /\ InfoPresent(r.chat_history, r.body) /\ r.media_urls = << >>)
      => /\ r.mediator_response = <<"FALSE_1">>
         /\ ChatActive(r)
         /\ (Finished(r) /\ r.exc = "none") => r.persisted = << ReminderText >>

\* C21: two calls of analyze_conversation with the same user, history,
\* message and media_urls give the same decision.
C21_SameInputSameDecision ==
  (inp \in MediatorInputs /\ Len(out) >= 2) => out[1] = out[2]

\* C22: no call of analyze_conversation raises, whatever the history, the
\* message, the media_urls and the model's answer are.
C22_ClassifyNeverRaises ==
  inp \in MediatorInputs => \A i \in 1..Len(out) : ~out[i].raised

\* C23: a Ready turn whose e-mail body could not be composed from the resume
\* (generate_email_body fell back to the default template) sends no e-mail,
\* leaves the chat active and persists an error reply.
C23_ComposeFailureAborts ==
  \A p \in Serial :
    LET r == req[p] IN
    (Finished(r) /\ Ready(r) /\ Has(r.stages, "compose")
       /\ r.email_body = "default" /\ r.exc = "none")
      => /\ ~Has(r.stages, "send")
         /\ ~r.email_sent
         /\ ChatActive(r)
         /\ r.persisted \in {<< SendErrorText >>, << DownloadErrorText >>}

\* C24: a turn that creates a chat never consults the mediator, downloads
\* nothing and sends no e-mail, whatever its body and attachments are; after
\* the intro it only persists the row and replies.
C24_CreatingTurnIsTerminal ==
  \A p \in Serial :
    LET r == req[p] IN
    (r.pc \in {"create_chat", "intro"} \/ Has(r.stages, "intro"))
      => /\ r.stages \in {<< >>, <<"intro">>}
         /\ r.raw = << >> /\ r.mediator_response = << >>
         /\ r.chat_history = << >>
         /\ r.dl = "none" /\ r.temp_file = << >> /\ files = {}
         /\ ~r.email_sent /\ emails = << >>
         /\ Has(r.stages, "intro")
              => r.pc \in {"save", "reply", "err_reply", "done"}
         /\ (Finished(r) /\ r.exc = "none")
              => r.replies = << [text |-> IntroText, ok |-> TRUE] >>

\* a first message with an address, a subject and a pdf only got the intro
C24_Witness ==
  \E p \in Serial :
    LET r == req[p] IN
    /\ Finished(r) /\ r.exc = "none" /\ r.stages = <<"intro">>
    /\ r.body = BothBody /\ r.media_urls = <<"u1">>
    /\ r.replies = << [text |-> IntroText, ok |-> TRUE] >>
    /\ emails = << >> /\ Len(chats) = 1

\* the entries of the payload that count as a pdf attachment
IsPdfEntry(e) ==
  e.ctype \in {"application/pdf", "Application/PDF"} /\ e.url # ""

\* C25: media_urls holds the urls of exactly the payload's first NumMedia
\* entries whose content type is application/pdf in any case, in payload
\* order; when none is, media_urls is empty and no answer of the model makes
\* the turn Ready.
C25_OnlyPdfMedia ==
  (inp \in FilterInputs /\ out # << >>)
    => LET pdfs == SelectSeq(SubSeq(inp.media, 1, inp.NumMedia), IsPdfEntry)
       IN /\ out[1].media_urls = [i \in 1..Len(pdfs) |-> pdfs[i].url]
          /\ pdfs = << >>
               => /\ out[1].media_urls = << >>
                  /\ \A d \in out[1].decisions : ~StartsWithTRUE(d)

\* a pdf, a png and an upper-case pdf: the two pdf urls are kept, in order
C25_Witness ==
  /\ inp \in FilterInputs /\ out # << >>
  /\ inp.NumMedia = 3
  /\ inp.media = << PdfEntry, [ctype |-> "image/png", url |-> "u3"],
                    [ctype |-> "Application/PDF", url |-> "u2"] >>
  /\ out[1].media_urls = <<"u1", "u2">>

\* C26: two Ready turns that are in the middle of their handling at the same
\* time never have the same temporary file path.
C26_DistinctTempFiles ==
  \A p, q \in Procs :
    (/\ p # q
     /\ InFlight(req[p]) /\ ~Finished(req[p])
     /\ InFlight(req[q]) /\ ~Finished(req[q])
     /\ req[p].temp_file # << >> /\ req[q].temp_file # << >>)
      => req[p].temp_file # req[q].temp_file

\* C27: a turn issues at most one download request; after a failed download
\* the turn runs no further stage of the pipeline and goes on to persist and
\* send its reply.
C27_SingleDownload ==
  \A p \in Serial :
    LET r == req[p] IN
    /\ Cardinality({i \in 1..Len(r.stages) : r.stages[i] = "download"}) <= 1
    /\ r.dl \in {"failed", "partial"}
         => /\ r.stages = <<"mediate", "download">>
            /\ r.pc \in {"save", "reply", "err_reply", "done"}
            /\ ~r.email_sent

\* the one download of a turn failed and the turn ended with the error reply
C27_Witness ==
  \E p \in Serial :
    LET r == req[p] IN
    /\ Finished(r) /\ r.exc = "none" /\ r.dl = "failed"
    /\ r.stages = <<"mediate", "download">>
    /\ r.persisted = << DownloadErrorText >>

\* C28: for a text of n characters process_pdf builds min(5, ceil(n / 2000))
\* chunks, the k-th being the characters from 2000 (k - 1) up to 2000 k or the
\* end of the text; it stores at most 5 documents, each one of these chunks under
\* its index, and all of them when no add raises.
C28_ChunksBounded ==
  (inp \in 0..MaxText /\ out # << >> /\ out[1].status # "error")
    => LET n == inp
           c == out[1].chunks
           ceil == (n + 1999) \div 2000
       IN /\ Len(c) = (IF ceil < 5 THEN ceil ELSE 5)
          /\ \A k \in 1..Len(c) :
               /\ c[k].from = 2000 * (k - 1)
               /\ c[k].to = (IF 2000 * k < n THEN 2000 * k ELSE n)
               /\ c[k].to - c[k].from \in 1..2000
          /\ Cardinality(out[1].stored) <= 5
          /\ \A d \in out[1].stored :
               d.id \in 0..(Len(c) - 1) /\ d.document = c[d.id + 1]
          /\ out[1].failed = {} => Cardinality(out[1].stored) = Len(c)

\* a text of 10001 characters: five full chunks stored, the last character cut
C28_Witness ==
  /\ inp = 10001 /\ out # << >> /\ out[1].status = "success"
  /\ Len(out[1].chunks) = 5
  /\ out[1].chunks[5] = [from |-> 8000, to |-> 10000]
  /\ Cardinality(out[1].stored) = 5

\* C29: the step that calls analyze_conversation leaves the chats and
\* messages tables, the files, the e-mails sent and the chat_history and
\* media_urls it was given as they were; until the turn's row is saved the
\* history handed to the mediator is still the stored history of the chat.
C29_MediatorIsPure ==
  /\ [](\A p \in Serial :
          LET r == req[p] IN
          (Has(r.stages, "mediate") /\ r.persisted = << >>)
            => r.chat_history = SelectMessages(r.chat_id))
  /\ [][\A p \in Serial :
          req[p].pc = "mediate"
            => /\ chats' = chats /\ messages' = messages
               /\ files' = files /\ emails' = emails
               /\ req'[p].chat_history = req[p].chat_history
               /\ req'[p].media_urls = req[p].media_urls
               /\ req'[p].user_id = req[p].user_id
               /\ req'[p].body = req[p].body]_vars

\* the mediator has just answered TRUE for a turn with a history and a pdf
C29_Witness ==
  \E p \in Serial :
    LET r == req[p] IN
    /\ r.pc = "download" /\ r.stages = <<"mediate">> /\ Ready(r)
    /\ r.media_urls = <<"u1">>
    /\ r.chat_history # << >> /\ r.chat_history = SelectMessages(r.chat_id)

\* C30: every message row belongs to a chat of its user and holds one user
\* message and one bot reply; in every step the rows of each chat are the rows
\* it had, in the same order, followed by at most one new row.
C30_AppendOnlyLog ==
  /\ [](\A i \in 1..Len(messages) :
          /\ messages[i].chat_id \in 1..Len(chats)
          /\ messages[i].user_id = chats[messages[i].chat_id].user_id
          /\ messages[i].user_message \in Bodies
          /\ messages[i].bot_reply.kind # "")
  /\ [][\A c \in 1..Len(chats') :
          LET old == SelectMessages(c)
              new == SelectMessages(c)'
          IN /\ Len(old) <= Len(new) /\ Len(new) <= Len(old) + 1
             /\ SubSeq(new, 1, Len(old)) = old]_vars

\* a chat whose log has grown to two rows, the intro row first
C30_Witness ==
  /\ Len(chats) >= 1
  /\ Len(SelectMessages(1)) = 2
  /\ SelectMessages(1)[1].bot_reply = IntroText
  /\ SelectMessages(1)[2].bot_reply = ReminderText

\* C31: at most one e-mail is dispatched within one chat.
C31_OneEmailPerChat ==
  \A c \in 1..Len(chats) :
    Cardinality({i \in 1..Len(emails) : emails[i].chat_id = c}) <= 1

\* C32: the history handed to the mediator holds rows of the turn's chat only,
\* which belongs to the sender and is active when the mediator is asked; until
\* the turn's own row is saved it is exactly the rows of that chat in the
\* order they were written, so nothing of an ended chat or of another user's
\* chat is in it.
C32_HistoryOfActiveChat ==
  \A p \in Serial :
    LET r == req[p] IN
    (r.pc = "mediate" \/ Has(r.stages, "mediate"))
      => /\ chats[r.chat_id].user_id = r.user_id
         /\ r.pc = "mediate" => chats[r.chat_id].status = "active"
         /\ \A i \in 1..Len(r.chat_history) :
              /\ r.chat_history[i].chat_id = r.chat_id
              /\ r.chat_history[i].user_id = r.user_id
         /\ r.persisted = << >>
              => r.chat_history =
                   SelectSeq(messages, LAMBDA m : m.chat_id = r.chat_id)

\* the ended chat 1 named recipient and subject; the mediator is asked about
\* chat 3, whose history and message name neither
C32_Witness ==
  \E p \in Serial :
    LET r == req[p] IN
    /\ r.pc = "mediate" /\ r.user_id = 1 /\ r.chat_id = 3
    /\ chats[1].user_id = 1 /\ chats[1].status = "ended"
    /\ messages[1].chat_id = 1 /\ messages[1].user_message = BothBody
    /\ Len(r.chat_history) >= 1
    /\ ~InfoPresent(r.chat_history, r.body)

\* C33: when a member's turn attempts its reply the row of the turn is
\* already the last row of the messages table and holds that reply; when the
\* send raises, the row stays, with the bot_reply that was not delivered, and
\* the generic error reply is the second send.
C33_RowBeforeReply ==
  \A p \in Serial :
    LET r == req[p]
        last == messages[Len(messages)]
    IN r.user_id # 0
         => /\ r.pc = "reply"
                 => /\ r.replies = << >>
                    /\ messages # << >>
                    /\ last = [chat_id |-> r.chat_id, user_id |-> r.user_id,
                               user_message |-> r.body, bot_reply |-> r.reply]
            /\ (r.replies # << >> /\ r.replies[1].text # GenericErrorText)
                 => /\ messages # << >>
                    /\ last = [chat_id |-> r.chat_id, user_id |-> r.user_id,
                               user_message |-> r.body,
                               bot_reply |-> r.replies[1].text]
            /\ (Finished(r) /\ r.exc = "twilio")
                 => /\ ~r.replies[1].ok
                    /\ last.bot_reply = r.replies[1].text
                    /\ Len(r.replies) = 2
                    /\ r.replies[2].text = GenericErrorText

\* the reminder was saved, its send raised, the generic error reply went out
C33_Witness ==
  \E p \in Serial :
    LET r == req[p] IN
    /\ Finished(r) /\ r.user_id # 0 /\ r.exc = "twilio"
    /\ r.replies = << [text |-> ReminderText, ok |-> FALSE],
                      [text |-> GenericErrorText, ok |-> TRUE] >>
    /\ messages[Len(messages)].bot_reply = ReminderText
    /\ messages[Len(messages)].chat_id = r.chat_id

\* C34: a turn whose mediator answer starts with TRUE and holds fewer than
\* two commas downloads nothing, sends no e-mail, leaves the chat active,
\* persists no row and sends the generic error text as its only reply.
C34_MalformedReady ==
  \A p \in Serial :
    LET r == req[p]
        resp == r.mediator_response
        commas == Cardinality({i \in 1..Len(resp) : resp[i] = ","})
    IN (Mediated(r) /\ Ready(r) /\ commas < 2)
         => /\ r.stages = <<"mediate">>
            /\ r.dl = "none" /\ r.temp_file = << >> /\ ~r.email_sent
            /\ ChatActive(r)
            /\ r.persisted = << >>
            /\ r.pc \in {"err_reply", "done"}
            /\ Len(r.replies) <= 1
            /\ \A i \in 1..Len(r.replies) : r.replies[i].text = GenericErrorText
            /\ Finished(r) => Len(r.replies) = 1

\* the answer "TRUE,recruiter@acme.com" ended in the generic error reply
C34_Witness ==
  \E p \in Serial :
    LET r == req[p] IN
    /\ Finished(r)
    /\ r.mediator_response = <<"TRUE", ",", "recruiter@acme.com">>
    /\ r.media_urls # << >>
    /\ r.replies = << [text |-> GenericErrorText, ok |-> TRUE] >>
    /\ r.persisted = << >> /\ ChatActive(r) /\ emails = << >>

\* C35: email_user_with_attachments returns the success text only when the
\* SMTP send completed and every listed attachment is in the message; with a
\* setting missing or an attachment that cannot be read it returns an error
\* text and opens no SMTP session.
C35_NoSendWithoutAttachment ==
  (inp \in EmailToolInputs /\ out # << >>)
    => LET missing == \/ inp.receiver_email = "" \/ inp.sender_name = ""
                      \/ inp.sender_email = "" \/ inp.sender_passkey = ""
           unreadable == \E i \in 1..Len(inp.attachments) :
                           inp.attachments[i] = "unreadable"
       IN /\ out[1].result = "email sent successfully"
               => /\ out[1].smtp = "sent"
                  /\ ~missing /\ ~unreadable
                  /\ Len(out[1].attached) = Len(inp.attachments)
          /\ out[1].smtp = "sent"
               => Len(out[1].attached) = Len(inp.attachments)
          /\ (missing \/ unreadable)
               => /\ out[1].result # "email sent successfully"
                  /\ out[1].smtp = "none"

\* the second of two attachments cannot be read: error text, no SMTP session
C35_Witness ==
  /\ inp \in EmailToolInputs /\ out # << >>
  /\ inp.receiver_email # "" /\ inp.sender_name # ""
  /\ inp.sender_email # "" /\ inp.sender_passkey # ""
  /\ inp.attachments = <<"readable", "unreadable">>
  /\ out[1].result = "error: Failed to attach file"
  /\ out[1].smtp = "none"

\* C36: generate_email_body never raises and always returns a body; with no
\* attachment path, a PDF that could not be processed, no chunk retrieved, an
\* empty extracted text, or an exception in any step, the body is the fixed
\* default template; any other body is the summary model's answer.
C36_BodyAlways ==
  (inp \in ComposeInputs /\ out # << >>)
    => LET c == inp
           stored == c.pdf = "text" /\ c.store = "ok"
           fallback == \/ c.attachment_path = ""
                       \/ c.pdf = "unreadable"
                       \/ c.pdf = "empty"
                       \/ stored /\ c.documents = "none"
                       \/ c.raises = "process_pdf"
                       \/ stored /\ c.raises = "query_collection"
                       \/ c.raises = "generate_email_content"
       IN /\ ~out[1].raised
          /\ fallback => out[1].body = "default"
          /\ ~fallback => out[1].body = (IF c.content = "raise"
                                           THEN "default" ELSE c.content)

\* the summary model's call raised on a stored resume with chunks retrieved
\* and the default template came back
C36_Witness ==
  /\ inp \in ComposeInputs /\ out # << >>
  /\ inp.attachment_path # "" /\ inp.pdf = "text" /\ inp.store = "ok"
  /\ inp.documents = "some" /\ inp.raises = "generate_email_content"
  /\ ~out[1].raised /\ out[1].body = "default"

====
